---- MODULE Spec2Model ----
(***************************************************************************)
(* Model of ui/base/native_theme/native_theme_android.cc: the fallback     *)
(* widget theme renderer NativeThemeAndroid (GetPartSize, Paint and the    *)
(* per-part paint routines) and its colour helpers (BrightenColor,         *)
(* SaturateAndBrighten, OutlineColor).                                     *)
(*                                                                         *)
(* SkScalar / double channel values are fixed-point integers, Scale = 1.0. *)
(* A drawing surface is the sequence of calls made on it.                  *)
(***************************************************************************)
EXTENDS Integers, Sequences, FiniteSets, TLC

\* Fixed-point unit of an SkScalar colour channel: Scale stands for 1.0.
Scale == 10000

\* Largest rect side drawn for the caller's destination rectangle.
MaxSide == 20

\* Colour channels of the caller's HSV/HSL triples are i/ChannelSteps.
ChannelSteps == 4

\* Largest non-zero origin coordinate of the caller's rectangle.
MaxOrigin == 3

\* Program constants of the part sizes.
kButtonLength == 14
kScrollbarWidth == 15
kCheckboxAndRadioWidth == 13
kCheckboxAndRadioHeight == 13
kSliderThumbWidth == 11
kSliderThumbHeight == 21

VARIABLES
  s_native_theme,  \* the static local of instance(): "uninitialized" or "constructed"
  ctorCalls,       \* number of times NativeThemeAndroid() has run
  rect,            \* the caller's destination rectangle
  state,           \* the caller's widget state
  rb,              \* the shared ResourceBundle: asset id -> image size
  call,            \* the last call made: [fn, part, extra]
  ret,             \* what the last call returned
  canvas,          \* the calls the last call made on the drawing surface
  trace,           \* the helper calls the last call made
  notreached,      \* the last call hit NOTREACHED()
  completed,       \* the last call returned (FALSE: a debug build trapped)
  hsv1, hsv2,      \* the caller's colour triples (colour specification)
  frame            \* locals of the last colour helper call at its return

themeVars == <<s_native_theme, ctorCalls, rect, state, rb, call, ret, canvas,
               trace, notreached, completed>>
colourVars == <<hsv1, hsv2, frame>>
vars == <<s_native_theme, ctorCalls, rect, state, rb, call, ret, canvas,
          trace, notreached, completed, hsv1, hsv2, frame>>

----------------------------------------------------------------------------
\* Enumerations of native_theme.h as Paint and GetPartSize switch on them.

KnownParts ==
  {"kScrollbarDownArrow", "kScrollbarUpArrow", "kScrollbarLeftArrow",
   "kScrollbarRightArrow", "kCheckbox", "kRadio", "kPushButton", "kTextField",
   "kMenuList", "kSliderTrack", "kSliderThumb", "kInnerSpinButton",
   "kProgressBar"}

\* Any Part value that no case label names.
UnknownPart == "kUnknownPart"

Parts == KnownParts \cup {UnknownPart}

States == {"kDisabled", "kNormal", "kHovered", "kPressed"}

----------------------------------------------------------------------------
\* Arithmetic helpers.

Min(m, n) == IF m < n THEN m ELSE n
Max(m, n) == IF m > n THEN m ELSE n
Abs(n) == IF n < 0 THEN -n ELSE n

\* C++ integer division truncates toward zero.
Div(n, d) == IF n >= 0 THEN n \div d ELSE -((-n) \div d)

\* n/d as a fixed-point SkScalar literal.
Lit(n, d) == (n * Scale) \div d

\* gfx::Rect, gfx::Size, and SkRect / SkIRect as set(left, top, right,
\* bottom) fills them.
Rect(x, y, width, height) == [x |-> x, y |-> y, width |-> width, height |-> height]
Size(width, height) == [width |-> width, height |-> height]
SkRect(left, top, right, bottom) ==
  [fLeft |-> left, fTop |-> top, fRight |-> right, fBottom |-> bottom]

----------------------------------------------------------------------------
\* Colours.  A grey SkColor is [a, r, g, b]; a chromatic colour produced from
\* a triple keeps the byte-quantised saturation and value it was built from.

ARGB(a, r, g, b) == [a |-> a, r |-> r, g |-> g, b |-> b]
RGB(r, g, b) == ARGB(255, r, g, b)

SK_ColorBLACK == RGB(0, 0, 0)
SK_ColorWHITE == RGB(255, 255, 255)

kTrackColor == ARGB(0, 211, 211, 211)
kThumbInactiveColor == ARGB(0, 234, 234, 234)
kSliderTrackBackgroundColor == RGB(227, 221, 216)
kSliderThumbLightGrey == RGB(244, 242, 239)
kSliderThumbDarkGrey == RGB(234, 229, 224)
kSliderThumbBorderDarkGrey == RGB(157, 150, 142)

\* A unit scalar as a byte, as SkHSVToColor quantises saturation and value.
UnitToByte(x) == IF x < 0 THEN 0 ELSE IF x >= Scale THEN 255 ELSE (x * 256) \div Scale

\* SkHSVToColor(hsv): alpha 0xFF; saturation byte 0 gives the grey (v, v, v).
SkHSVToColor(hsv) ==
  LET h == hsv.h
      s == UnitToByte(hsv.s)
      v == UnitToByte(hsv.v)
  IN IF s = 0 THEN ARGB(255, v, v, v)
     ELSE [a |-> 255, h |-> h, sb |-> s, vb |-> v]

\* SkColorToHSV(color, hsv): value is max(r, g, b)/255; alpha is ignored.
SkColorToHSV(c) ==
  IF "r" \in DOMAIN c
    THEN LET mx == Max(c.r, Max(c.g, c.b))
             mn == Min(c.r, Min(c.g, c.b))
         IN [h |-> 0,
             s |-> IF mx = 0 THEN 0 ELSE ((mx - mn) * Scale) \div mx,
             v |-> (mx * Scale) \div 255]
    ELSE [h |-> c.h, s |-> (c.sb * Scale) \div 255, v |-> (c.vb * Scale) \div 255]

\* Mutation of Clamp: the lower bound is not applied.
Clamp_NoLowerBound(value, min, max) == Min(value, max)

\* NativeThemeAndroid::Clamp
Clamp(value, min, max) == Min(Max(value, min), max)

\* NativeThemeAndroid::SaturateAndBrighten, as its locals when it returns:
\* hsv is the caller's array, color the local array, ret the returned SkColor.
SaturateAndBrighten(hsv, saturate_amount, brighten_amount) ==
  LET color == [h |-> hsv.h,
                s |-> Clamp(hsv.s + saturate_amount, 0, Scale),
                v |-> Clamp(hsv.v + brighten_amount, 0, Scale)]
  IN [ret |-> SkHSVToColor(color), hsv |-> hsv, color |-> color]

\* Mutation of OutlineColorDiff: the sign is never flipped.
OutlineColorDiff_NoFlip(h1, h2) ==
  LET min_diff == Min(Max(((h1.s + h2.s) * 12) \div 10, Lit(28, 100)), Lit(5, 10))
  IN Min(Max(Abs(h1.v - h2.v) \div 2, min_diff), Lit(5, 10))

\* The local diff of OutlineColor after the sign flip.
OutlineColorDiff(h1, h2) ==
  LET min_diff == Clamp(((h1.s + h2.s) * 12) \div 10, Lit(28, 100), Lit(5, 10))
      diff == Clamp(Abs(h1.v - h2.v) \div 2, min_diff, Lit(5, 10))
  IN IF h1.v + h2.v > Scale THEN -diff ELSE diff

\* NativeThemeAndroid::OutlineColor, as the frame of its tail call.
OutlineColor(h1, h2) ==
  SaturateAndBrighten(h2, -Lit(2, 10), OutlineColorDiff(h1, h2))

\* color_utils::SkColorToHSL for the grey colours the callers pass:
\* lightness is the channel over 255, hue and saturation are 0.
SkColorToHSL(c) ==
  [h |-> 0, s |-> 0, l |-> (c.r * Scale) \div 255]

\* color_utils::HSLToSkColor: recombines the triple with the given alpha.
HSLToSkColor(hsl, alpha) ==
  IF hsl.s = 0
    THEN LET g == (hsl.l * 255 + Scale \div 2) \div Scale IN ARGB(alpha, g, g, g)
    ELSE [a |-> alpha, h |-> hsl.h, s |-> hsl.s, l |-> hsl.l]

\* BrightenColor, as its locals when it returns.
BrightenColor(hsl, alpha, lightness_amount) ==
  LET l1 == hsl.l + lightness_amount
      l2 == IF l1 > Scale THEN Scale ELSE l1
      l3 == IF l2 < 0 THEN 0 ELSE l2
      adjusted == [h |-> hsl.h, s |-> hsl.s, l |-> l3]
  IN [ret |-> HSLToSkColor(adjusted, alpha), hsl |-> hsl, adjusted |-> adjusted]

----------------------------------------------------------------------------
\* The drawing surface.  An SkPaint is [color, style, aa, shader]; a drawing
\* call is [op, args, paint].  Path coordinates are in half pixels (2 = 1px)
\* because the arrow outlines start on half-pixel positions.

SkPaint == [color |-> SK_ColorBLACK, style |-> "kFill_Style", aa |-> FALSE,
            shader |-> [kind |-> "NULL"]]

\* The image calls of gfx::Canvas take no SkPaint.
NoPaint == [color |-> SK_ColorBLACK, style |-> "none", aa |-> FALSE,
            shader |-> [kind |-> "NULL"]]

Op(op, args, paint) == [op |-> op, args |-> args, paint |-> paint]

moveTo(x2, y2) == [x |-> x2, y |-> y2, verb |-> "moveTo"]
lineTo(x2, y2) == [x |-> x2, y |-> y2, verb |-> "lineTo"]
rLineTo(dx2, dy2) == [x |-> dx2, y |-> dy2, verb |-> "rLineTo"]
close == [x |-> 0, y |-> 0, verb |-> "close"]

\* What a paint routine did: the drawing calls it made on the canvas, and the
\* helper calls (arrow-button routine, gradient construction) it made.
Done(ops, tr) == [trace |-> tr, ops |-> ops]

\* gfx::Rect::Center: the rectangle of the given size centred in r.
Center(r, size) ==
  Rect(r.x + Div(r.width - size.width, 2), r.y + Div(r.height - size.height, 2),
       size.width, size.height)

\* NativeThemeAndroid::DrawImageInt
DrawImageInt(image, src_x, src_y, src_w, src_h, dest_x, dest_y, dest_w, dest_h) ==
  Op("DrawImageInt",
     [image |-> image, src |-> Rect(src_x, src_y, src_w, src_h),
      dest |-> Rect(dest_x, dest_y, dest_w, dest_h)],
     NoPaint)

\* NativeThemeAndroid::DrawTiledImage; a tile scale is the fraction <<n, d>>.
DrawTiledImage(image, src_x, src_y, tile_scale_x, tile_scale_y, dest_x, dest_y, w, h) ==
  Op("TileImageInt",
     [image |-> image, src_x |-> src_x, src_y |-> src_y,
      dest |-> Rect(dest_x, dest_y, w, h), tile_scale_x |-> tile_scale_x,
      tile_scale_y |-> tile_scale_y],
     NoPaint)

\* NativeThemeAndroid::DrawVertLine
DrawVertLine(x, y1, y2, paint) ==
  Op("drawIRect", SkRect(x, y1, x + 1, y2 + 1), paint)

\* NativeThemeAndroid::DrawHorizLine
DrawHorizLine(x1, x2, y, paint) ==
  Op("drawIRect", SkRect(x1, y, x2 + 1, y + 1), paint)

\* NativeThemeAndroid::DrawBox
DrawBox(r, paint) ==
  LET right == r.x + r.width - 1
      bottom == r.y + r.height - 1
  IN << DrawHorizLine(r.x, right, r.y, paint),
        DrawVertLine(right, r.y, bottom, paint),
        DrawHorizLine(r.x, right, bottom, paint),
        DrawVertLine(r.x, r.y, bottom, paint) >>

----------------------------------------------------------------------------
\* NativeThemeAndroid::PaintArrowButton

ArrowOutline(r, direction) ==
  LET x == r.x  y == r.y  w == r.width  h == r.height
  IN CASE direction = "kScrollbarUpArrow" ->
            << moveTo(2 * x + 1, 2 * (y + h) + 1),
               rLineTo(0, -2 * (h - 2)), rLineTo(4, -4), rLineTo(2 * (w - 5), 0),
               rLineTo(4, 4), rLineTo(0, 2 * (h - 2)), close >>
       [] direction = "kScrollbarDownArrow" ->
            << moveTo(2 * x + 1, 2 * y - 1),
               rLineTo(0, 2 * (h - 2)), rLineTo(4, 4), rLineTo(2 * (w - 5), 0),
               rLineTo(4, -4), rLineTo(0, -2 * (h - 2)), close >>
       [] direction = "kScrollbarRightArrow" ->
            << moveTo(2 * x - 1, 2 * y + 1),
               rLineTo(2 * (w - 2), 0), rLineTo(4, 4), rLineTo(0, 2 * (h - 5)),
               rLineTo(-4, 4), rLineTo(-2 * (w - 2), 0), close >>
       [] direction = "kScrollbarLeftArrow" ->
            << moveTo(2 * (x + w) + 1, 2 * y + 1),
               rLineTo(-2 * (w - 2), 0), rLineTo(-4, 4), rLineTo(0, 2 * (h - 5)),
               rLineTo(4, 4), rLineTo(2 * (w - 2), 0), close >>
       [] OTHER -> << close >>

ArrowGlyph(r, direction) ==
  LET vertical == direction \in {"kScrollbarUpArrow", "kScrollbarDownArrow"}
      widthMiddle == IF vertical THEN Div(r.width, 2) + 1 ELSE Div(r.height, 2) + 1
      lengthMiddle == IF vertical THEN Div(r.height, 2) + 1 ELSE Div(r.width, 2) + 1
  IN CASE direction = "kScrollbarUpArrow" ->
            << moveTo(2 * (r.x + widthMiddle - 4), 2 * (r.y + lengthMiddle + 2)),
               rLineTo(14, 0), rLineTo(-8, -8), close >>
       [] direction = "kScrollbarDownArrow" ->
            << moveTo(2 * (r.x + widthMiddle - 4), 2 * (r.y + lengthMiddle - 3)),
               rLineTo(14, 0), rLineTo(-8, 8), close >>
       [] direction = "kScrollbarRightArrow" ->
            << moveTo(2 * (r.x + lengthMiddle - 3), 2 * (r.y + widthMiddle - 4)),
               rLineTo(0, 14), rLineTo(8, -8), close >>
       [] direction = "kScrollbarLeftArrow" ->
            << moveTo(2 * (r.x + lengthMiddle + 1), 2 * (r.y + widthMiddle - 5)),
               rLineTo(0, 18), rLineTo(-8, -8), close >>
       [] OTHER -> << close >>

\* The state-adjusted colour the outline is filled with.
ArrowButtonColor(st) ==
  LET trackHSV == SkColorToHSV(kTrackColor)
      buttonColor == SaturateAndBrighten(trackHSV, 0, Lit(2, 10)).ret
  IN IF st = "kPressed"
       THEN SaturateAndBrighten(SkColorToHSV(buttonColor), 0, -Lit(1, 10)).ret
       ELSE IF st = "kHovered"
         THEN SaturateAndBrighten(SkColorToHSV(buttonColor), 0, Lit(5, 100)).ret
         ELSE buttonColor

\* Mutation of ArrowGlyphColor: the glyph is black in every state.
ArrowGlyphColor_AlwaysBlack(st, outlineColor) == SK_ColorBLACK

\* The colour of the glyph: the paint still holds the outline colour when the
\* state is Disabled.
ArrowGlyphColor(st, outlineColor) ==
  IF st # "kDisabled" THEN SK_ColorBLACK ELSE outlineColor

PaintArrowButton(r, direction, st) ==
  LET trackHSV == SkColorToHSV(kTrackColor)
      backgroundColor == SaturateAndBrighten(trackHSV, 0, Lit(2, 10)).ret
      buttonColor == ArrowButtonColor(st)
      outline == ArrowOutline(r, direction)
      thumbHSV == SkColorToHSV(kThumbInactiveColor)
      outlineColor == OutlineColor(trackHSV, thumbHSV).ret
      p1 == [SkPaint EXCEPT !.color = backgroundColor]
      p2 == [p1 EXCEPT !.style = "kFill_Style", !.color = buttonColor]
      p3 == [p2 EXCEPT !.aa = TRUE, !.style = "kStroke_Style", !.color = outlineColor]
      p4 == [p3 EXCEPT !.color = ArrowGlyphColor(st, p3.color),
                       !.aa = FALSE, !.style = "kFill_Style"]
  IN Done(<< Op("drawIRect",
                SkRect(r.x, r.y, r.x + r.width, r.y + r.height), p1),
             Op("drawPath", outline, p2),
             Op("drawPath", outline, p3),
             Op("drawPath", ArrowGlyph(r, direction), p4) >>,
          << [rect |-> r, state |-> st, direction |-> direction,
              fn |-> "PaintArrowButton"] >>)

----------------------------------------------------------------------------
\* NativeThemeAndroid::PaintCheckbox

\* Mutation of CheckboxImage: checked is tested before indeterminate.
CheckboxImage_CheckedFirst(st, button) ==
  IF button.checked
    THEN IF st = "kDisabled" THEN "IDR_CHECKBOX_DISABLED_ON" ELSE "IDR_CHECKBOX_ON"
    ELSE IF button.indeterminate
      THEN IF st = "kDisabled" THEN "IDR_CHECKBOX_DISABLED_INDETERMINATE"
                               ELSE "IDR_CHECKBOX_INDETERMINATE"
      ELSE IF st = "kDisabled" THEN "IDR_CHECKBOX_DISABLED_OFF" ELSE "IDR_CHECKBOX_OFF"

CheckboxImage(st, button) ==
  IF button.indeterminate
    THEN IF st = "kDisabled" THEN "IDR_CHECKBOX_DISABLED_INDETERMINATE"
                             ELSE "IDR_CHECKBOX_INDETERMINATE"
    ELSE IF button.checked
      THEN IF st = "kDisabled" THEN "IDR_CHECKBOX_DISABLED_ON" ELSE "IDR_CHECKBOX_ON"
      ELSE IF st = "kDisabled" THEN "IDR_CHECKBOX_DISABLED_OFF" ELSE "IDR_CHECKBOX_OFF"

PaintCheckbox(bundle, st, r, button) ==
  LET image == CheckboxImage(st, button)
      sz == bundle[image]
      bounds == Center(r, Size(sz.width, sz.height))
  IN Done(<< DrawImageInt(image, 0, 0, sz.width, sz.height,
                          bounds.x, bounds.y, bounds.width, bounds.height) >>,
          << >>)

\* NativeThemeAndroid::PaintRadio

RadioImage(st, button) ==
  IF st = "kDisabled"
    THEN IF button.checked THEN "IDR_RADIO_DISABLED_ON" ELSE "IDR_RADIO_DISABLED_OFF"
    ELSE IF button.checked THEN "IDR_RADIO_ON" ELSE "IDR_RADIO_OFF"

PaintRadio(bundle, st, r, button) ==
  LET image == RadioImage(st, button)
      sz == bundle[image]
      bounds == Center(r, Size(sz.width, sz.height))
  IN Done(<< DrawImageInt(image, 0, 0, sz.width, sz.height,
                          bounds.x, bounds.y, bounds.width, bounds.height) >>,
          << >>)

----------------------------------------------------------------------------
\* NativeThemeAndroid::PaintButton

\* Mutation of ButtonTooSmall: both dimensions must be small.
ButtonTooSmall_Both(r) == r.width < 5 /\ r.height < 5

\* The test that sends a button to the single flat fill.
ButtonTooSmall(r) == r.width < 5 \/ r.height < 5

\* Mutation of ButtonLightEnd: the light stop stays at the top when pressed.
ButtonLightEnd_Always0(st) == 0

\* kLightEnd: the index of the gradient point that gets the top of the rect.
ButtonLightEnd(st) == IF st = "kPressed" THEN 1 ELSE 0

PaintButton(st, r, button) ==
  LET kRight == r.x + r.width
      kBottom == r.y + r.height
      base_color == button.background_color
      base_hsl == SkColorToHSL(base_color)
      light_color == BrightenColor(base_hsl, base_color.a, Lit(105, 1000)).ret
      flat == [SkPaint EXCEPT !.color = base_color]
      kBorderAlpha == IF st = "kHovered" THEN 128 ELSE 85
      border == [SkPaint EXCEPT !.color = ARGB(kBorderAlpha, 0, 0, 0)]
      kLightEnd == ButtonLightEnd(st)
      kDarkEnd == 1 - kLightEnd
      gradient_bounds == [i \in {0, 1} |->
                            IF i = kLightEnd THEN <<r.x, r.y>> ELSE <<r.x, kBottom - 1>>]
      colors == [i \in {0, 1} |-> IF i = 0 THEN light_color ELSE base_color]
      shader == [kind |-> "linear", colors |-> colors, pts |-> gradient_bounds]
      \* the paint came through the border block when there is one
      grad == [(IF button.has_border THEN border ELSE SkPaint)
                 EXCEPT !.color = SK_ColorBLACK, !.style = "kFill_Style",
                        !.shader = shader]
      skrect == IF button.has_border
                  THEN SkRect(r.x + 1, r.y + 1, kRight - 1, kBottom - 1)
                  ELSE SkRect(r.x, r.y, kRight, kBottom)
      corner == [grad EXCEPT !.shader = [kind |-> "NULL"],
                   !.color = BrightenColor(base_hsl, base_color.a, -Lit(588, 10000)).ret]
  IN IF ButtonTooSmall(r)
       THEN Done(<< Op("drawRect",
                       SkRect(r.x, r.y, kRight, kBottom), flat) >>,
                 << >>)
       ELSE Done(
         (IF button.has_border
            THEN << Op("drawLine", <<r.x + 1, r.y, kRight - 1, r.y>>, border),
                    Op("drawLine", <<kRight - 1, r.y + 1, kRight - 1, kBottom - 1>>, border),
                    Op("drawLine", <<r.x + 1, kBottom - 1, kRight - 1, kBottom - 1>>, border),
                    Op("drawLine", <<r.x, r.y + 1, r.x, kBottom - 1>>, border) >>
            ELSE << >>)
         \o << Op("drawRect", skrect, grad) >>
         \o (IF button.has_border
               THEN << Op("drawPoint", <<r.x + 1, r.y + 1>>, corner),
                       Op("drawPoint", <<kRight - 2, r.y + 1>>, corner),
                       Op("drawPoint", <<r.x + 1, kBottom - 2>>, corner),
                       Op("drawPoint", <<kRight - 2, kBottom - 2>>, corner) >>
               ELSE << >>),
         << [fn |-> "SkGradientShader::CreateLinear", colors |-> colors,
             pts |-> gradient_bounds] >>)

----------------------------------------------------------------------------
\* NativeThemeAndroid::PaintTextField

\* Mutation of TextFieldBorderWidth: the listbox gets the text-input width.
TextFieldBorderWidth_Always2(text) == 2

\* kBorderWidth of the inset border.
TextFieldBorderWidth(text) == IF text.is_listbox THEN 1 ELSE 2

PaintTextField(st, r, text) ==
  LET left == r.x
      top == r.y
      right == r.x + r.width
      bottom == r.y + r.height
      bounds == SkRect(r.x, r.y, right - 1, bottom - 1)
      fill_paint == [SkPaint EXCEPT !.style = "kFill_Style",
                                    !.color = text.background_color]
      stroke == [fill_paint EXCEPT !.style = "kStroke_Style", !.color = SK_ColorBLACK]
      kLightColor == IF text.is_listbox THEN RGB(128, 128, 128) ELSE RGB(238, 238, 238)
      kDarkColor == IF text.is_listbox THEN RGB(44, 44, 44) ELSE RGB(154, 154, 154)
      kBorderWidth == TextFieldBorderWidth(text)
      dark_paint == [SkPaint EXCEPT !.aa = TRUE, !.style = "kFill_Style",
                                    !.color = kDarkColor]
      light_paint == [SkPaint EXCEPT !.aa = TRUE, !.style = "kFill_Style",
                                     !.color = kLightColor]
      P(x, y) == lineTo(2 * x, 2 * y)
      M(x, y) == moveTo(2 * x, 2 * y)
  IN IF text.is_text_area
       THEN Done(<< Op("drawRect", bounds, fill_paint),
                    Op("drawRect", bounds, stroke) >>, << >>)
       ELSE Done(
         << Op("drawRect", bounds, fill_paint),
            \* Top
            Op("drawPath",
               << M(left, top), P(left + kBorderWidth, top + kBorderWidth),
                  P(right - kBorderWidth, top + kBorderWidth), P(right, top) >>,
               dark_paint),
            \* Bottom
            Op("drawPath",
               << M(left + kBorderWidth, bottom - kBorderWidth), P(left, bottom),
                  P(right, bottom), P(right - kBorderWidth, bottom - kBorderWidth) >>,
               light_paint),
            \* Left
            Op("drawPath",
               << M(left, top), P(left, bottom),
                  P(left + kBorderWidth, bottom - kBorderWidth),
                  P(left + kBorderWidth, top + kBorderWidth) >>,
               dark_paint),
            \* Right
            Op("drawPath",
               << M(right - kBorderWidth, top + kBorderWidth),
                  P(right - kBorderWidth, bottom), P(right, bottom), P(right, top) >>,
               light_paint) >>,
         << >>)

----------------------------------------------------------------------------
\* NativeThemeAndroid::PaintMenuList

PaintMenuList(st, r, menu_list) ==
  LET button == [checked |-> FALSE,
                 indeterminate |-> FALSE,
                 background_color |-> menu_list.background_color,
                 has_border |-> menu_list.has_border]
      chrome == IF ~menu_list.has_border_radius
                  THEN PaintButton(st, r, button) ELSE Done(<< >>, << >>)
      paint == [SkPaint EXCEPT !.color = SK_ColorBLACK, !.aa = TRUE,
                               !.style = "kFill_Style"]
      path == << moveTo(2 * menu_list.arrow_x, 2 * (menu_list.arrow_y - 3)),
                 rLineTo(12, 0), rLineTo(-6, 12), close >>
  IN Done(chrome.ops \o << Op("drawPath", path, paint) >>, chrome.trace)

----------------------------------------------------------------------------
\* NativeThemeAndroid::PaintSliderTrack

\* Mutation of SliderTrackBand: the band is not clamped to the rect.
SliderTrackBand_Unclamped(lo, hi, mid) == <<mid - 2, mid + 2>>

\* The ends of the band across the track: std::max / std::min against the
\* rect's own ends.
SliderTrackBand(lo, hi, mid) == <<Max(lo, mid - 2), Min(hi, mid + 2)>>

PaintSliderTrack(st, r, slider) ==
  LET kMidX == r.x + Div(r.width, 2)
      kMidY == r.y + Div(r.height, 2)
      right == r.x + r.width
      bottom == r.y + r.height
      paint == [SkPaint EXCEPT !.color = kSliderTrackBackgroundColor]
      bandX == SliderTrackBand(r.x, right, kMidX)
      bandY == SliderTrackBand(r.y, bottom, kMidY)
      skrect == IF slider.vertical
                  THEN SkRect(bandX[1], r.y, bandX[2], bottom)
                  ELSE SkRect(r.x, bandY[1], right, bandY[2])
  IN Done(<< Op("drawRect", skrect, paint) >>, << >>)

\* NativeThemeAndroid::PaintSliderThumb

\* Mutation of SliderThumbHasTicks: the comparison admits 10.
SliderThumbHasTicks_AtLeast10(r) == r.height >= 10 /\ r.width >= 10

\* The test that adds the three ticks to the thumb.
SliderThumbHasTicks(r) == r.height > 10 /\ r.width > 10

\* Mutation of SliderThumbColors: the same two greys, swapped on hover.
SliderThumbColors_Swapped(hovered) ==
  IF hovered THEN <<kSliderThumbDarkGrey, kSliderThumbLightGrey>>
             ELSE <<kSliderThumbLightGrey, kSliderThumbDarkGrey>>

\* The colours of the first and of the second half of the thumb.
SliderThumbColors(hovered) ==
  << IF hovered THEN SK_ColorWHITE ELSE kSliderThumbLightGrey,
     IF hovered THEN kSliderThumbLightGrey ELSE kSliderThumbDarkGrey >>

PaintSliderThumb(st, r, slider) ==
  LET hovered == (st = "kHovered") \/ slider.in_drag
      kMidX == r.x + Div(r.width, 2)
      kMidY == r.y + Div(r.height, 2)
      right == r.x + r.width
      bottom == r.y + r.height
      p1 == [SkPaint EXCEPT !.color = SliderThumbColors(hovered)[1]]
      first == IF slider.vertical
                 THEN SkRect(r.x, r.y, kMidX + 1, bottom)
                 ELSE SkRect(r.x, r.y, right, kMidY + 1)
      p2 == [p1 EXCEPT !.color = SliderThumbColors(hovered)[2]]
      second == IF slider.vertical
                  THEN SkRect(kMidX + 1, r.y, right, bottom)
                  ELSE SkRect(r.x, kMidY + 1, right, bottom)
      p3 == [p2 EXCEPT !.color = kSliderThumbBorderDarkGrey]
  IN Done(<< Op("drawIRect", first, p1), Op("drawIRect", second, p2) >>
          \o DrawBox(r, p3)
          \o (IF SliderThumbHasTicks(r)
                THEN << DrawHorizLine(kMidX - 2, kMidX + 2, kMidY, p3),
                        DrawHorizLine(kMidX - 2, kMidX + 2, kMidY - 3, p3),
                        DrawHorizLine(kMidX - 2, kMidX + 2, kMidY + 3, p3) >>
                ELSE << >>),
          << >>)

----------------------------------------------------------------------------
\* NativeThemeAndroid::PaintInnerSpinButton

\* Mutation of InnerSpinStates: the half that is not active is disabled.
InnerSpinStates_OtherDisabled(st, spin_button) ==
  LET s0 == IF spin_button.read_only THEN "kDisabled" ELSE st
  IN IF spin_button.spin_up THEN <<s0, "kDisabled">> ELSE <<"kDisabled", s0>>

\* The states the two halves are painted in: <<north_state, south_state>>.
InnerSpinStates(st, spin_button) ==
  LET s0 == IF spin_button.read_only THEN "kDisabled" ELSE st
      quiet == IF s0 # "kDisabled" THEN "kNormal" ELSE "kDisabled"
  IN IF spin_button.spin_up THEN <<s0, quiet>> ELSE <<quiet, s0>>

PaintInnerSpinButton(st, r, spin_button) ==
  LET halves == InnerSpinStates(st, spin_button)
      half1 == [r EXCEPT !.height = Div(r.height, 2)]
      half2 == [half1 EXCEPT !.y = r.y + Div(r.height, 2)]
      north == PaintArrowButton(half1, "kScrollbarUpArrow", halves[1])
      south == PaintArrowButton(half2, "kScrollbarDownArrow", halves[2])
  IN Done(north.ops \o south.ops, north.trace \o south.trace)

----------------------------------------------------------------------------
\* NativeThemeAndroid::PaintProgressBar
\* float tile scales are kept as exact fractions <<numerator, denominator>>;
\* static_cast<int> of a non-negative product truncates.

\* Mutation of ProgressBarHasValue: the value image is always drawn.
ProgressBarHasValue_Always(progress_bar) == TRUE

\* The test that adds the value image.
ProgressBarHasValue(progress_bar) == progress_bar.value_rect_width # 0

PaintProgressBar(bundle, st, r, progress_bar) ==
  LET bar_image == bundle["IDR_PROGRESS_BAR"]
      left_border_image == bundle["IDR_PROGRESS_BORDER_LEFT"]
      right_border_image == bundle["IDR_PROGRESS_BORDER_RIGHT"]
      value_image == bundle["IDR_PROGRESS_VALUE"]
      tile_scale == <<r.height, bar_image.height>>
      ScaleInt(w) == Div(w * r.height, bar_image.height)
      bar_tile_scale_x == <<ScaleInt(bar_image.width), bar_image.width>>
      value_tile_scale_x == <<ScaleInt(value_image.width), value_image.width>>
      dest_left_border_width == ScaleInt(left_border_image.width)
      dest_right_border_width == ScaleInt(right_border_image.width)
      dest_x == r.x + r.width - dest_right_border_width
  IN Done(
       << DrawTiledImage("IDR_PROGRESS_BAR", 0, 0, bar_tile_scale_x, tile_scale,
                         r.x, r.y, r.width, r.height) >>
       \o (IF ProgressBarHasValue(progress_bar)
             THEN << DrawTiledImage("IDR_PROGRESS_VALUE", 0, 0, value_tile_scale_x,
                                    tile_scale,
                                    progress_bar.value_rect_x, progress_bar.value_rect_y,
                                    progress_bar.value_rect_width,
                                    progress_bar.value_rect_height) >>
             ELSE << >>)
       \o << DrawImageInt("IDR_PROGRESS_BORDER_LEFT", 0, 0, left_border_image.width,
                          left_border_image.height, r.x, r.y, dest_left_border_width,
                          r.height),
             DrawImageInt("IDR_PROGRESS_BORDER_RIGHT", 0, 0, right_border_image.width,
                          right_border_image.height, dest_x, r.y,
                          dest_right_border_width, r.height) >>,
       << >>)

----------------------------------------------------------------------------
\* NativeThemeAndroid::GetPartSize: [size, notreached].

\* Mutation of GetPartSize: the inner spin button is listed with the parts
\* that have no default size.
GetPartSize_SpinNoSize(part, st, extra) ==
  CASE part \in {"kScrollbarDownArrow", "kScrollbarUpArrow"} ->
         [notreached |-> FALSE, size |-> Size(kScrollbarWidth, kButtonLength)]
    [] part \in {"kScrollbarLeftArrow", "kScrollbarRightArrow"} ->
         [notreached |-> FALSE, size |-> Size(kButtonLength, kScrollbarWidth)]
    [] part \in {"kCheckbox", "kRadio"} ->
         [notreached |-> FALSE,
          size |-> Size(kCheckboxAndRadioWidth, kCheckboxAndRadioHeight)]
    [] part = "kSliderThumb" ->
         [notreached |-> FALSE, size |-> Size(kSliderThumbWidth, kSliderThumbHeight)]
    [] part \in {"kPushButton", "kTextField", "kMenuList", "kSliderTrack",
                 "kProgressBar", "kInnerSpinButton"} ->
         [notreached |-> FALSE, size |-> Size(0, 0)]
    [] OTHER -> [notreached |-> TRUE, size |-> Size(0, 0)]

GetPartSize(part, st, extra) ==
  CASE part \in {"kScrollbarDownArrow", "kScrollbarUpArrow"} ->
         [notreached |-> FALSE, size |-> Size(kScrollbarWidth, kButtonLength)]
    [] part \in {"kScrollbarLeftArrow", "kScrollbarRightArrow"} ->
         [notreached |-> FALSE, size |-> Size(kButtonLength, kScrollbarWidth)]
    [] part \in {"kCheckbox", "kRadio"} ->
         [notreached |-> FALSE,
          size |-> Size(kCheckboxAndRadioWidth, kCheckboxAndRadioHeight)]
    [] part = "kSliderThumb" ->
         [notreached |-> FALSE, size |-> Size(kSliderThumbWidth, kSliderThumbHeight)]
    [] part = "kInnerSpinButton" ->
         [notreached |-> FALSE, size |-> Size(kScrollbarWidth, 0)]
    [] part \in {"kPushButton", "kTextField", "kMenuList", "kSliderTrack",
                 "kProgressBar"} ->
         [notreached |-> FALSE, size |-> Size(0, 0)]
    [] OTHER -> [notreached |-> TRUE, size |-> Size(0, 0)]

\* Mutation of PaintDispatch: the switch has no case for the progress bar.
PaintDispatch_NoProgressBar(bundle, part, st, r, extra) ==
  LET Ran(d) == [trace |-> d.trace, notreached |-> FALSE, ops |-> d.ops]
  IN CASE part \in {"kScrollbarDownArrow", "kScrollbarUpArrow",
                    "kScrollbarLeftArrow", "kScrollbarRightArrow"} ->
            Ran(PaintArrowButton(r, part, st))
       [] part = "kCheckbox" -> Ran(PaintCheckbox(bundle, st, r, extra.button))
       [] part = "kRadio" -> Ran(PaintRadio(bundle, st, r, extra.button))
       [] part = "kPushButton" -> Ran(PaintButton(st, r, extra.button))
       [] part = "kTextField" -> Ran(PaintTextField(st, r, extra.text_field))
       [] part = "kMenuList" -> Ran(PaintMenuList(st, r, extra.menu_list))
       [] part = "kSliderTrack" -> Ran(PaintSliderTrack(st, r, extra.slider))
       [] part = "kSliderThumb" -> Ran(PaintSliderThumb(st, r, extra.slider))
       [] part = "kInnerSpinButton" ->
            Ran(PaintInnerSpinButton(st, r, extra.inner_spin))
       [] OTHER -> [trace |-> << >>, notreached |-> TRUE, ops |-> << >>]

\* NativeThemeAndroid::Paint: [ops, trace, notreached].
PaintDispatch(bundle, part, st, r, extra) ==
  LET Ran(d) == [trace |-> d.trace, notreached |-> FALSE, ops |-> d.ops]
  IN CASE part \in {"kScrollbarDownArrow", "kScrollbarUpArrow",
                    "kScrollbarLeftArrow", "kScrollbarRightArrow"} ->
            Ran(PaintArrowButton(r, part, st))
       [] part = "kCheckbox" -> Ran(PaintCheckbox(bundle, st, r, extra.button))
       [] part = "kRadio" -> Ran(PaintRadio(bundle, st, r, extra.button))
       [] part = "kPushButton" -> Ran(PaintButton(st, r, extra.button))
       [] part = "kTextField" -> Ran(PaintTextField(st, r, extra.text_field))
       [] part = "kMenuList" -> Ran(PaintMenuList(st, r, extra.menu_list))
       [] part = "kSliderTrack" -> Ran(PaintSliderTrack(st, r, extra.slider))
       [] part = "kSliderThumb" -> Ran(PaintSliderThumb(st, r, extra.slider))
       [] part = "kInnerSpinButton" ->
            Ran(PaintInnerSpinButton(st, r, extra.inner_spin))
       [] part = "kProgressBar" ->
            Ran(PaintProgressBar(bundle, st, r, extra.progress_bar))
       [] OTHER -> [trace |-> << >>, notreached |-> TRUE, ops |-> << >>]

\* NativeThemeAndroid::GetSystemColor
GetSystemColor(color_id) == SK_ColorBLACK

\* Mutation of InstanceConstructs: the local is constructed on every call.
InstanceConstructs_EveryCall(local) == TRUE

\* NativeThemeAndroid::instance: whether this call runs the constructor of
\* the function-local static.
InstanceConstructs(local) == local = "uninitialized"

----------------------------------------------------------------------------
\* The callers' arguments.

\* <<width, height>> of the destination rectangles: squares on both sides of
\* every size test of the paint routines, rectangles that pass a test in
\* one dimension only, and rectangles thinner than the slider track's band.
RectSizes ==
  { <<s, s>> : s \in {0, 2, 4, 5, 9, 10, 11, MaxSide} }
  \cup { <<4, MaxSide>>, <<MaxSide, 4>>, <<10, 11>>, <<11, 10>>, <<0, 11>>,
         <<11, 0>>, <<5, 9>>, <<9, 5>>, <<1, 3>>, <<3, 1>> }

Rects == { Rect(MaxOrigin, MaxOrigin - 1, p[1], p[2]) : p \in RectSizes }

\* The assets the ResourceBundle holds: image id -> pixel size.
ImageIds ==
  {"IDR_CHECKBOX_DISABLED_INDETERMINATE", "IDR_CHECKBOX_INDETERMINATE",
   "IDR_CHECKBOX_DISABLED_ON", "IDR_CHECKBOX_ON", "IDR_CHECKBOX_DISABLED_OFF",
   "IDR_CHECKBOX_OFF", "IDR_RADIO_DISABLED_ON", "IDR_RADIO_DISABLED_OFF",
   "IDR_RADIO_ON", "IDR_RADIO_OFF", "IDR_PROGRESS_BAR",
   "IDR_PROGRESS_BORDER_LEFT", "IDR_PROGRESS_BORDER_RIGHT", "IDR_PROGRESS_VALUE"}

ResourceBundles ==
  { [id \in ImageIds |->
       CASE id = "IDR_PROGRESS_BAR" -> Size(3, 6)
         [] id = "IDR_PROGRESS_BORDER_LEFT" -> Size(2, 6)
         [] id = "IDR_PROGRESS_BORDER_RIGHT" -> Size(1, 6)
         [] id = "IDR_PROGRESS_VALUE" -> Size(4, 6)
         [] id \in {"IDR_RADIO_DISABLED_ON", "IDR_RADIO_DISABLED_OFF",
                    "IDR_RADIO_ON", "IDR_RADIO_OFF"} -> Size(7, 9)
         [] OTHER -> Size(13, 13)] }

NoExtra == [none |-> TRUE]

\* The ExtraParams variants a caller passes with each part.
ExtraFor(part) ==
  CASE part \in {"kCheckbox", "kRadio"} ->
         { [button |-> [checked |-> c, indeterminate |-> i,
                        background_color |-> RGB(221, 221, 221),
                        has_border |-> FALSE]] : c, i \in BOOLEAN }
    [] part = "kPushButton" ->
         { [button |-> [checked |-> FALSE, indeterminate |-> FALSE,
                        background_color |-> bg, has_border |-> hb]] :
             bg \in {RGB(221, 221, 221), RGB(250, 250, 250)}, hb \in BOOLEAN }
    [] part = "kTextField" ->
         { [text_field |-> [background_color |-> SK_ColorWHITE, is_listbox |-> lb,
                            is_text_area |-> ta]] : ta, lb \in BOOLEAN }
    [] part = "kMenuList" ->
         { [menu_list |-> [background_color |-> RGB(221, 221, 221), has_border |-> hb,
                           has_border_radius |-> br,
                           arrow_x |-> 9, arrow_y |-> 6]] : hb, br \in BOOLEAN }
    [] part \in {"kSliderTrack", "kSliderThumb"} ->
         { [slider |-> [vertical |-> v, in_drag |-> d]] : v, d \in BOOLEAN }
    [] part = "kInnerSpinButton" ->
         { [inner_spin |-> [read_only |-> ro, spin_up |-> up]] : ro, up \in BOOLEAN }
    [] part = "kProgressBar" ->
         { [progress_bar |-> [value_rect_width |-> w, value_rect_x |-> 4,
                              value_rect_y |-> 3, value_rect_height |-> 5]] :
             w \in {0, 6} }
    [] OTHER -> { NoExtra }

\* GetPartSize is called with no extra parameters or with one of the part's.
SizeExtraFor(part) ==
  {NoExtra} \cup {CHOOSE e \in ExtraFor(part) : TRUE}

ColorIds == {"kColorId_DialogBackground"}

NoTriple == [h |-> 0, s |-> 0, v |-> 0]
NoFrame == [fn |-> "none"]

----------------------------------------------------------------------------
\* The renderer's calls.

Init ==
  /\ s_native_theme = "uninitialized"
  /\ ctorCalls = 0
  /\ rect \in Rects
  /\ state \in States
  /\ rb \in ResourceBundles
  /\ call = [fn |-> "none", part |-> "none", extra |-> NoExtra]
  /\ ret = [kind |-> "none"]
  /\ canvas = << >>
  /\ trace = << >>
  /\ notreached = FALSE
  /\ completed = TRUE
  /\ hsv1 = NoTriple
  /\ hsv2 = NoTriple
  /\ frame = NoFrame

\* NativeThemeAndroid::instance()
Instance ==
  /\ completed
  /\ IF InstanceConstructs(s_native_theme)
       THEN s_native_theme' = "constructed" /\ ctorCalls' = ctorCalls + 1
       ELSE UNCHANGED <<s_native_theme, ctorCalls>>
  /\ call' = [fn |-> "instance", part |-> "none", extra |-> NoExtra]
  /\ ret' = [kind |-> "pointer", to |-> "s_native_theme"]
  /\ canvas' = << >>
  /\ trace' = << >>
  /\ notreached' = FALSE
  /\ completed' = TRUE
  /\ UNCHANGED <<rect, state, rb, hsv1, hsv2, frame>>

\* instance()->GetPartSize(part, state, extra); NOTREACHED() traps in a debug
\* build and is a no-op in a release build.
CallGetPartSize(part, extra) ==
  /\ completed
  /\ s_native_theme = "constructed"
  /\ LET r == GetPartSize(part, state, extra)
     IN /\ ret' = [kind |-> "size", size |-> r.size]
        /\ notreached' = r.notreached
        /\ completed' \in (IF r.notreached THEN BOOLEAN ELSE {TRUE})
  /\ call' = [fn |-> "GetPartSize", part |-> part, extra |-> extra]
  /\ canvas' = << >>
  /\ trace' = << >>
  /\ UNCHANGED <<s_native_theme, ctorCalls, rect, state, rb, hsv1, hsv2, frame>>

\* instance()->Paint(canvas, part, state, rect, extra)
CallPaint(part, extra) ==
  /\ completed
  /\ s_native_theme = "constructed"
  /\ LET r == PaintDispatch(rb, part, state, rect, extra)
     IN /\ canvas' = r.ops
        /\ trace' = r.trace
        /\ notreached' = r.notreached
        /\ completed' \in (IF r.notreached THEN BOOLEAN ELSE {TRUE})
  /\ call' = [fn |-> "Paint", part |-> part, extra |-> extra]
  /\ ret' = [kind |-> "void"]
  /\ UNCHANGED <<s_native_theme, ctorCalls, rect, state, rb, hsv1, hsv2, frame>>

\* instance()->GetSystemColor(color_id)
CallGetSystemColor(color_id) ==
  /\ completed
  /\ s_native_theme = "constructed"
  /\ call' = [fn |-> "GetSystemColor", part |-> color_id, extra |-> NoExtra]
  /\ ret' = [color |-> GetSystemColor(color_id), kind |-> "color"]
  /\ canvas' = << >>
  /\ trace' = << >>
  /\ notreached' = FALSE
  /\ completed' = TRUE
  /\ UNCHANGED <<s_native_theme, ctorCalls, rect, state, rb, hsv1, hsv2, frame>>

Next ==
  \/ Instance
  \/ \E part \in Parts : \E extra \in SizeExtraFor(part) : CallGetPartSize(part, extra)
  \/ \E part \in Parts : \E extra \in ExtraFor(part) : CallPaint(part, extra)
  \/ \E color_id \in ColorIds : CallGetSystemColor(color_id)

Spec == Init /\ [][Next]_vars

----------------------------------------------------------------------------
\* The colour helpers on their own: the caller holds two triples and calls
\* OutlineColor, SaturateAndBrighten and BrightenColor on them.

Channels == { (i * Scale) \div ChannelSteps : i \in 0..ChannelSteps }

Triples(hues) == { [h |-> h, s |-> s, v |-> v] : h \in hues, s \in Channels, v \in Channels }

\* Adjustment amounts of either sign, within and beyond one unit.
Amounts ==
  { -((3 * Scale) \div 2), -(Scale \div ChannelSteps), Scale \div ChannelSteps,
    (3 * Scale) \div 2 }

\* The triple read as hue, saturation, lightness.
AsHSL(t) == [h |-> t.h, s |-> t.s, l |-> t.v]
FromHSL(t) == [h |-> t.h, s |-> t.s, v |-> t.l]

InitColour ==
  /\ s_native_theme = "uninitialized"
  /\ ctorCalls = 0
  /\ rect = Rect(0, 0, 0, 0)
  /\ state = "kNormal"
  /\ rb \in ResourceBundles
  /\ call = [fn |-> "none", part |-> "none", extra |-> NoExtra]
  /\ ret = [kind |-> "none"]
  /\ canvas = << >>
  /\ trace = << >>
  /\ notreached = FALSE
  /\ completed = TRUE
  /\ hsv1 \in Triples({0, 210})
  /\ hsv2 \in Triples({120})
  /\ frame = NoFrame

\* OutlineColor(hsv1, hsv2)
CallOutlineColor ==
  LET f == OutlineColor(hsv1, hsv2)
  IN /\ frame' = [ret |-> f.ret, fn |-> "OutlineColor", in1 |-> hsv1,
                  in2 |-> hsv2, saturate |-> 0, brighten |-> 0, out |-> f.color]
     /\ hsv2' = f.hsv
     /\ UNCHANGED <<hsv1, themeVars>>

\* SaturateAndBrighten(hsv1, saturate_amount, brighten_amount)
CallSaturateAndBrighten(saturate_amount, brighten_amount) ==
  LET f == SaturateAndBrighten(hsv1, saturate_amount, brighten_amount)
  IN /\ frame' = [ret |-> f.ret, fn |-> "SaturateAndBrighten", in1 |-> hsv1,
                  in2 |-> hsv2, saturate |-> saturate_amount,
                  brighten |-> brighten_amount, out |-> f.color]
     /\ hsv1' = f.hsv
     /\ UNCHANGED <<hsv2, themeVars>>

\* BrightenColor(hsl, alpha, lightness_amount) on hsv1 read as an HSL triple
CallBrightenColor(lightness_amount) ==
  LET f == BrightenColor(AsHSL(hsv1), 255, lightness_amount)
  IN /\ frame' = [ret |-> f.ret, fn |-> "BrightenColor", in1 |-> hsv1,
                  in2 |-> hsv2, saturate |-> 0,
                  brighten |-> lightness_amount, out |-> FromHSL(f.adjusted)]
     /\ hsv1' = FromHSL(f.hsl)
     /\ UNCHANGED <<hsv2, themeVars>>

NextColour ==
  \/ CallOutlineColor
  \/ \E sa \in Amounts : \E ba \in Amounts : CallSaturateAndBrighten(sa, ba)
  \/ \E la \in Amounts : CallBrightenColor(la)

SpecColour == InitColour /\ [][NextColour]_vars

----------------------------------------------------------------------------
\* Properties of the renderer's calls (specification Spec).

Painted(part) == call.fn = "Paint" /\ call.part = part

\* C1 as stated: Paint(InnerSpinButton) with state Normal and read_only false
\* paints the bottom half Normal and the top half Disabled when spin_up, the
\* reverse when not spin_up; with read_only both halves are Disabled.
C1_OtherHalfDisabled ==
  (Painted("kInnerSpinButton") /\ state = "kNormal") =>
    LET e == call.extra.inner_spin
        north == trace[1].state
        south == trace[2].state
    IN IF e.read_only THEN north = "kDisabled" /\ south = "kDisabled"
       ELSE IF e.spin_up THEN south = "kNormal" /\ north = "kDisabled"
       ELSE north = "kNormal" /\ south = "kDisabled"

\* C1 amended: with read_only false the half selected by spin_up (top when
\* true, bottom when false) is painted in the given state and the other half
\* in Normal (Disabled when the state is Disabled), so with state Normal both
\* halves are painted Normal whatever spin_up is; with read_only true both
\* halves are painted Disabled.
C1_OtherHalfNormal ==
  Painted("kInnerSpinButton") =>
    LET e == call.extra.inner_spin
        north == trace[1].state
        south == trace[2].state
    IN /\ Len(trace) = 2
       /\ trace[1].direction = "kScrollbarUpArrow"
       /\ trace[2].direction = "kScrollbarDownArrow"
       /\ (e.read_only \/ state = "kDisabled")
            => (north = "kDisabled" /\ south = "kDisabled")
       /\ (~e.read_only /\ state # "kDisabled" /\ e.spin_up)
            => (north = state /\ south = "kNormal")
       /\ (~e.read_only /\ state # "kDisabled" /\ ~e.spin_up)
            => (north = "kNormal" /\ south = state)
       /\ (~e.read_only /\ state = "kNormal")
            => (north = "kNormal" /\ south = "kNormal")

\* C1 witness: a Normal, writable spin button spinning up was painted with
\* both halves Normal.
C1_Witness ==
  /\ Painted("kInnerSpinButton") /\ state = "kNormal"
  /\ ~call.extra.inner_spin.read_only /\ call.extra.inner_spin.spin_up
  /\ trace[1].state = "kNormal" /\ trace[2].state = "kNormal"

\* The drawing calls of PaintSliderThumb after the two half fills and the
\* four lines of the box: the ticks.
ThumbTicks == SubSeq(canvas, 7, Len(canvas))

IsTick(op) ==
  /\ op.op = "drawIRect"
  /\ op.args.fBottom - op.args.fTop = 1
  /\ op.args.fRight - op.args.fLeft = 5
  /\ op.args.fLeft = rect.x + Div(rect.width, 2) - 2
  /\ op.paint.color = kSliderThumbBorderDarkGrey

\* C3 as stated: Paint(SliderThumb) draws the three ticks if and only if the
\* rect is at least 10 wide and at least 10 high.
C3_TicksFrom10 ==
  Painted("kSliderThumb") =>
    /\ Len(ThumbTicks) \in {0, 3}
    /\ Len(ThumbTicks) = 3 <=> (rect.width >= 10 /\ rect.height >= 10)

\* C3 amended: Paint(SliderThumb) draws the three horizontal ticks if and
\* only if the rect is more than 10 wide and more than 10 high (at least
\* 11x11: a 12x12 rect gets three ticks, a 10x10 and a 9x9 rect get none),
\* for every state and every vertical/in_drag value.
C3_TicksAbove10 ==
  Painted("kSliderThumb") =>
    /\ Len(ThumbTicks) \in {0, 3}
    /\ Len(ThumbTicks) = 3 <=> (rect.width > 10 /\ rect.height > 10)
    /\ \A i \in 1..Len(ThumbTicks) : IsTick(ThumbTicks[i])
    /\ Len(ThumbTicks) = 3 =>
         LET kMidY == rect.y + Div(rect.height, 2)
         IN <<ThumbTicks[1].args.fTop, ThumbTicks[2].args.fTop, ThumbTicks[3].args.fTop>>
              = <<kMidY, kMidY - 3, kMidY + 3>>

\* C3 witness: an 11x11 thumb was painted with its three ticks.
C3_Witness ==
  /\ Painted("kSliderThumb")
  /\ rect.width = 11 /\ rect.height = 11
  /\ Len(ThumbTicks) = 3

\* C4: for every state and ButtonExtraParams, Paint(PushButton) on a rect
\* with width < 5 or height < 5 makes exactly one drawing call, a flat fill
\* of the whole rect in the background colour, and creates no gradient and
\* draws no border line or corner point; on a rect at least 5x5 it creates
\* the gradient.
C4_SmallButtonFlatFill ==
  Painted("kPushButton") =>
    IF rect.width < 5 \/ rect.height < 5
      THEN /\ trace = << >>
           /\ Len(canvas) = 1
           /\ canvas[1].op = "drawRect"
           /\ canvas[1].args = SkRect(rect.x, rect.y, rect.x + rect.width,
                                      rect.y + rect.height)
           /\ canvas[1].paint.color = call.extra.button.background_color
           /\ canvas[1].paint.shader.kind = "NULL"
           /\ canvas[1].paint.style = "kFill_Style"
      ELSE /\ Len(trace) = 1
           /\ trace[1].fn = "SkGradientShader::CreateLinear"
           /\ \E i \in 1..Len(canvas) : canvas[i].paint.shader.kind = "linear"

\* C4 witness: a hovered, bordered button 4 wide and more than 5 high was
\* painted with the single flat fill.
C4_Witness ==
  /\ Painted("kPushButton") /\ state = "kHovered"
  /\ call.extra.button.has_border
  /\ rect.width = 4 /\ rect.height > 5
  /\ Len(canvas) = 1 /\ trace = << >>


IsImageCall(op) == op.op \in {"DrawImageInt", "TileImageInt"}

\* C5: Paint(ProgressBar) with value_rect_width = 0 makes exactly three image
\* calls in this order: the tiled bar over rect, the left cap at rect's left
\* edge, the right cap ending at rect's right edge, and none of the value
\* image; with value_rect_width non-zero it makes exactly one more, the tiled
\* value image into the given value rectangle, after the bar and before the
\* caps.
C5_ProgressBarCalls ==
  Painted("kProgressBar") =>
    LET pb == call.extra.progress_bar
        n == Len(canvas)
        right == rect.x + rect.width
    IN /\ \A i \in 1..n : IsImageCall(canvas[i])
       /\ n = IF pb.value_rect_width = 0 THEN 3 ELSE 4
       /\ canvas[1].op = "TileImageInt"
       /\ canvas[1].args.image = "IDR_PROGRESS_BAR"
       /\ canvas[1].args.dest = rect
       /\ canvas[n - 1].op = "DrawImageInt"
       /\ canvas[n - 1].args.image = "IDR_PROGRESS_BORDER_LEFT"
       /\ canvas[n - 1].args.dest.x = rect.x
       /\ canvas[n - 1].args.dest.y = rect.y
       /\ canvas[n - 1].args.dest.height = rect.height
       /\ canvas[n].op = "DrawImageInt"
       /\ canvas[n].args.image = "IDR_PROGRESS_BORDER_RIGHT"
       /\ canvas[n].args.dest.x + canvas[n].args.dest.width = right
       /\ canvas[n].args.dest.y = rect.y
       /\ canvas[n].args.dest.height = rect.height
       /\ pb.value_rect_width = 0 =>
            \A i \in 1..n : canvas[i].args.image # "IDR_PROGRESS_VALUE"
       /\ pb.value_rect_width # 0 =>
            /\ canvas[2].op = "TileImageInt"
            /\ canvas[2].args.image = "IDR_PROGRESS_VALUE"
            /\ canvas[2].args.dest =
                 Rect(pb.value_rect_x, pb.value_rect_y, pb.value_rect_width,
                      pb.value_rect_height)

\* C5 witness: a progress bar with no value width was painted on a rect of
\* positive size with its bar and two caps only.
C5_Witness ==
  /\ Painted("kProgressBar")
  /\ call.extra.progress_bar.value_rect_width = 0
  /\ rect.width > 0 /\ rect.height > 0
  /\ Len(canvas) = 3

\* The asset each (checked, indeterminate, disabled) combination selects.
CheckboxAsset ==
  [c \in BOOLEAN, i \in BOOLEAN, d \in BOOLEAN |->
     CASE i /\ d -> "IDR_CHECKBOX_DISABLED_INDETERMINATE"
       [] i /\ ~d -> "IDR_CHECKBOX_INDETERMINATE"
       [] ~i /\ c /\ d -> "IDR_CHECKBOX_DISABLED_ON"
       [] ~i /\ c /\ ~d -> "IDR_CHECKBOX_ON"
       [] ~i /\ ~c /\ d -> "IDR_CHECKBOX_DISABLED_OFF"
       [] OTHER -> "IDR_CHECKBOX_OFF"]

RadioAsset ==
  [c \in BOOLEAN, d \in BOOLEAN |->
     CASE c /\ d -> "IDR_RADIO_DISABLED_ON"
       [] c /\ ~d -> "IDR_RADIO_ON"
       [] ~c /\ d -> "IDR_RADIO_DISABLED_OFF"
       [] OTHER -> "IDR_RADIO_OFF"]

\* dest is centred in r: the margins on opposite sides differ by at most one.
CentredIn(dest, r) ==
  /\ Abs((dest.x - r.x) - ((r.x + r.width) - (dest.x + dest.width))) <= 1
  /\ Abs((dest.y - r.y) - ((r.y + r.height) - (dest.y + dest.height))) <= 1

\* C6: Paint(Checkbox) and Paint(Radio) each make exactly one image blit whose
\* asset is chosen only by (checked, indeterminate, state = Disabled) for the
\* checkbox and only by (checked, state = Disabled) for the radio, whose
\* destination size is the asset's natural size and whose destination
\* rectangle is centred in rect.
C6_OneCentredBlit ==
  (Painted("kCheckbox") \/ Painted("kRadio")) =>
    LET b == call.extra.button
        d == state = "kDisabled"
    IN /\ Len(canvas) = 1
       /\ canvas[1].op = "DrawImageInt"
       /\ canvas[1].args.image =
            IF call.part = "kCheckbox" THEN CheckboxAsset[b.checked, b.indeterminate, d]
                                       ELSE RadioAsset[b.checked, d]
       /\ canvas[1].args.src = Rect(0, 0, rb[canvas[1].args.image].width,
                                    rb[canvas[1].args.image].height)
       /\ canvas[1].args.dest.width = rb[canvas[1].args.image].width
       /\ canvas[1].args.dest.height = rb[canvas[1].args.image].height
       /\ CentredIn(canvas[1].args.dest, rect)

\* C6 witness: a Normal checkbox, checked and not indeterminate, was painted
\* on a 20x20 rect with the 13x13 checked asset 3 pixels inside each edge
\* but the last, 4 pixels inside.
C6_Witness ==
  /\ Painted("kCheckbox") /\ state = "kNormal"
  /\ call.extra.button.checked /\ ~call.extra.button.indeterminate
  /\ rect.width = 20 /\ rect.height = 20
  /\ canvas[1].args.image = "IDR_CHECKBOX_ON"
  /\ canvas[1].args.dest = Rect(rect.x + 3, rect.y + 3, 13, 13)

ArrowParts ==
  {"kScrollbarDownArrow", "kScrollbarUpArrow", "kScrollbarLeftArrow",
   "kScrollbarRightArrow"}

NoSizeParts == {"kPushButton", "kTextField", "kMenuList", "kSliderTrack", "kProgressBar"}

SizedParts == ArrowParts \cup {"kCheckbox", "kRadio", "kSliderThumb"}

GotSize(part) == call.fn = "GetPartSize" /\ call.part = part

\* C7 as stated: the result of GetPartSize is 13x13 for Checkbox and Radio, a
\* size of positive width and height for the arrows and SliderThumb, 0x0 for
\* the parts without a footprint, and every one of the 13 parts is in one of
\* these two groups.
C7_TwoGroups ==
  (call.fn = "GetPartSize" /\ call.part \in KnownParts) =>
    \/ /\ call.part \in SizedParts
       /\ ret.size.width > 0 /\ ret.size.height > 0
       /\ call.part \in {"kCheckbox", "kRadio"} => ret.size = Size(13, 13)
    \/ /\ call.part \in NoSizeParts
       /\ ret.size = Size(0, 0)

\* C7 amended: the result of GetPartSize depends only on part: it is 13x13
\* for Checkbox and Radio, a fixed size of positive width and height for each
\* of the four arrows and for SliderThumb, 0x0 for PushButton, TextField,
\* MenuList, SliderTrack and ProgressBar, and 15x0 (the scrollbar width, no
\* height) for InnerSpinButton, which is in neither group.
C7_SpinButtonApart ==
  (call.fn = "GetPartSize" /\ call.part \in KnownParts) =>
    ret.size =
      CASE call.part \in {"kCheckbox", "kRadio"} -> Size(13, 13)
        [] call.part \in {"kScrollbarUpArrow", "kScrollbarDownArrow"} -> Size(15, 14)
        [] call.part \in {"kScrollbarLeftArrow", "kScrollbarRightArrow"} -> Size(14, 15)
        [] call.part = "kSliderThumb" -> Size(11, 21)
        [] call.part = "kInnerSpinButton" -> Size(15, 0)
        [] OTHER -> Size(0, 0)

\* C7 witness: GetPartSize of a pressed inner spin button, called with its
\* extra parameters, returned 15x0.
C7_Witness ==
  /\ GotSize("kInnerSpinButton") /\ state = "kPressed"
  /\ call.extra # NoExtra
  /\ ret.size = Size(15, 0)

\* C9: a part outside the 13 enumerated ones makes GetPartSize and Paint
\* reach NOTREACHED(), and Paint then draws nothing; for each of the 13 parts
\* in any state neither reaches it and the call completes.
C9_FailFast ==
  (call.fn \in {"GetPartSize", "Paint"}) =>
    /\ notreached <=> call.part \notin KnownParts
    /\ (call.fn = "Paint" /\ call.part \notin KnownParts) =>
         (canvas = << >> /\ trace = << >>)
    /\ call.part \in KnownParts => completed

\* C9 witness: Paint of an unknown part reached NOTREACHED() in a build where
\* it does not trap, and returned having drawn nothing.
C9_Witness ==
  /\ Painted(UnknownPart)
  /\ notreached /\ completed /\ canvas = << >>

\* C10: the renderer is constructed exactly once, on the first instance()
\* call; every instance() call returns that object; no call changes the
\* renderer once constructed; and what Paint draws is determined by (part,
\* state, rect, extra): it is what the dispatch gives for the arguments, and
\* the same call made again draws the same.
C10_ConstructedOnce ==
  /\ [](/\ ctorCalls <= 1
        /\ (s_native_theme = "constructed") <=> (ctorCalls = 1)
        /\ call.fn # "none" => ctorCalls = 1
        /\ call.fn = "instance" => ret = [kind |-> "pointer", to |-> "s_native_theme"])
  /\ [][/\ s_native_theme = "constructed" => UNCHANGED <<s_native_theme, ctorCalls>>
        /\ UNCHANGED <<rb>>
        /\ call'.fn = "Paint" =>
             LET d == PaintDispatch(rb, call'.part, state', rect', call'.extra)
             IN canvas' = d.ops /\ trace' = d.trace
        /\ (call.fn = "Paint" /\ call' = call /\ completed') =>
             (canvas' = canvas /\ trace' = trace)]_vars

\* C10 witness: with the renderer constructed once, a bordered push button
\* was painted.
C10_Witness ==
  /\ ctorCalls = 1 /\ s_native_theme = "constructed"
  /\ Painted("kPushButton") /\ call.extra.button.has_border
  /\ Len(canvas) > 1

----------------------------------------------------------------------------
\* Properties of the colour helpers (specification SpecColour).

\* x held to the unit interval.
Unit(x) == IF x < 0 THEN 0 ELSE IF x > Scale THEN Scale ELSE x

\* minDiff = clamp((sat1 + sat2) * 1.2, 0.28, 0.5) of the last call's inputs.
MinDiff ==
  LET m == ((frame.in1.s + frame.in2.s) * 12) \div 10
  IN IF m < Lit(28, 100) THEN Lit(28, 100) ELSE IF m > Lit(5, 10) THEN Lit(5, 10) ELSE m

\* C2 as stated: the value of OutlineColor's result differs from hsv2's value
\* by at least minDiff and at most 0.5, and is below hsv2's value exactly
\* when val1 + val2 > 1.0 and above it otherwise.
C2_SeparatedAfterClamp ==
  frame.fn = "OutlineColor" =>
    LET light == frame.in1.v + frame.in2.v > Scale
        d == frame.out.v - frame.in2.v
    IN /\ Abs(d) >= MinDiff
       /\ Abs(d) <= Lit(5, 10)
       /\ light <=> d < 0
       /\ ~light <=> d > 0

\* C2 amended: the adjustment OutlineColor applies to hsv2's value has a
\* magnitude of at least minDiff and at most 0.5 and is negative exactly when
\* val1 + val2 > 1.0; the result's value is hsv2's value plus that adjustment
\* clamped to [0,1], so it is never above hsv2's value when val1 + val2 > 1.0
\* and never below it otherwise, differs from it by at most 0.5, and differs
\* by at least minDiff unless the clamp stopped it at 0 or at 1.
C2_SeparatedUnlessClamped ==
  frame.fn = "OutlineColor" =>
    LET light == frame.in1.v + frame.in2.v > Scale
        d == frame.out.v - frame.in2.v
    IN /\ Abs(d) <= Lit(5, 10)
       /\ light => (d <= 0 /\ (-d >= MinDiff \/ frame.out.v = 0))
       /\ ~light => (d >= 0 /\ (d >= MinDiff \/ frame.out.v = Scale))
       /\ frame.out.v \in 0..Scale
       /\ hsv1 = frame.in1 /\ hsv2 = frame.in2

\* C2 witness: for a light pair the outline went down to value 0, less than
\* minDiff below hsv2's value.
C2_Witness ==
  /\ frame.fn = "OutlineColor"
  /\ frame.in1.v + frame.in2.v > Scale
  /\ frame.out.v = 0
  /\ frame.in2.v > 0 /\ frame.in2.v < MinDiff

\* C8: for every triple with channels in [0,1] and every amount of either
\* sign and any magnitude, BrightenColor gives lightness clamp(l + amount, 0,
\* 1) with hue and saturation unchanged, SaturateAndBrighten gives saturation
\* clamp(s + ds, 0, 1) and value clamp(v + dv, 0, 1) with hue unchanged, and
\* neither modifies the caller's triple.
C8_ClampedChannels ==
  /\ frame.fn = "BrightenColor" =>
       /\ frame.out.v = Unit(frame.in1.v + frame.brighten)
       /\ frame.out.h = frame.in1.h /\ frame.out.s = frame.in1.s
       /\ hsv1 = frame.in1
  /\ frame.fn = "SaturateAndBrighten" =>
       /\ frame.out.s = Unit(frame.in1.s + frame.saturate)
       /\ frame.out.v = Unit(frame.in1.v + frame.brighten)
       /\ frame.out.h = frame.in1.h
       /\ hsv1 = frame.in1
  /\ frame.fn \in {"BrightenColor", "SaturateAndBrighten"} =>
       (frame.out.s \in 0..Scale /\ frame.out.v \in 0..Scale)

\* C8 witness: SaturateAndBrighten took a saturated, half-bright triple down
\* to saturation 0 and up to value 1 with amounts beyond one unit.
C8_Witness ==
  /\ frame.fn = "SaturateAndBrighten"
  /\ frame.saturate < -Scale /\ frame.brighten > Scale
  /\ frame.in1.s = Scale /\ frame.in1.v > 0 /\ frame.in1.v < Scale
  /\ frame.in1.h = 210
  /\ frame.out = [h |-> 210, s |-> 0, v |-> Scale]

----------------------------------------------------------------------------
\* Properties of the text field (specification Spec).

\* The path of drawing call i goes through the pixel corner (x, y).
PathHas(i, x, y) ==
  \E k \in 1..Len(canvas[i].args) :
    canvas[i].args[k].x = 2 * x /\ canvas[i].args[k].y = 2 * y

IsQuad(i) ==
  /\ canvas[i].op = "drawPath"
  /\ Len(canvas[i].args) = 4
  /\ canvas[i].paint.style = "kFill_Style"

TextLight == IF call.extra.text_field.is_listbox THEN RGB(128, 128, 128)
                                                 ELSE RGB(238, 238, 238)
TextDark == IF call.extra.text_field.is_listbox THEN RGB(44, 44, 44)
                                                ELSE RGB(154, 154, 154)
TextInset == IF call.extra.text_field.is_listbox THEN 1 ELSE 2

\* On a rect larger than the inset no quad goes through a third corner, so
\* each quad lies along one edge only.
TextQuadsApart == rect.width > TextInset /\ rect.height > TextInset

\* The colour the quad along an edge must have; the edge of a quad is told
\* by the two outer corners its path goes through.
TextEdgeColours(top, bottom, left, right) ==
  LET l == rect.x
      t == rect.y
      r == rect.x + rect.width
      b == rect.y + rect.height
  IN \A i \in 2..5 :
       /\ (PathHas(i, l, t) /\ PathHas(i, r, t)) => canvas[i].paint.color = top
       /\ (PathHas(i, l, b) /\ PathHas(i, r, b)) => canvas[i].paint.color = bottom
       /\ (PathHas(i, l, t) /\ PathHas(i, l, b)) => canvas[i].paint.color = left
       /\ (PathHas(i, r, t) /\ PathHas(i, r, b)) => canvas[i].paint.color = right

\* What both forms of C11 say besides the colours of the edges.
TextFieldShape ==
  LET e == call.extra.text_field
      l == rect.x
      t == rect.y
      r == rect.x + rect.width
      b == rect.y + rect.height
      w == TextInset
  IN /\ canvas[1].op = "drawRect"
     /\ canvas[1].paint.style = "kFill_Style"
     /\ canvas[1].paint.color = e.background_color
     /\ IF e.is_text_area
          THEN /\ Len(canvas) = 2
               /\ canvas[2].op = "drawRect"
               /\ canvas[2].paint.style = "kStroke_Style"
               /\ canvas[2].paint.color = SK_ColorBLACK
          ELSE /\ Len(canvas) = 5
               /\ \A i \in 2..5 : IsQuad(i)
               /\ \E i \in 2..5 : PathHas(i, l, t) /\ PathHas(i, r, t)
                                  /\ PathHas(i, l + w, t + w) /\ PathHas(i, r - w, t + w)
               /\ \E i \in 2..5 : PathHas(i, l, b) /\ PathHas(i, r, b)
                                  /\ PathHas(i, l + w, b - w) /\ PathHas(i, r - w, b - w)
               /\ \E i \in 2..5 : PathHas(i, l, t) /\ PathHas(i, l, b)
                                  /\ PathHas(i, l + w, t + w) /\ PathHas(i, l + w, b - w)
               /\ \E i \in 2..5 : PathHas(i, r, t) /\ PathHas(i, r, b)
                                  /\ PathHas(i, r - w, t + w)

\* C11 as stated: without is_text_area Paint(TextField) draws, after the
\* background fill, four quads of which the top and right ones are light and
\* the bottom and left ones dark, inset by 1 for a listbox and 2 otherwise;
\* with is_text_area it draws the fill and one stroke and no quad.
C11_TopRightLight ==
  Painted("kTextField") =>
    /\ TextFieldShape
    /\ (~call.extra.text_field.is_text_area /\ TextQuadsApart)
         => TextEdgeColours(TextLight, TextDark, TextDark, TextLight)

\* C11 amended: without is_text_area Paint(TextField) draws, after the
\* background fill, exactly four quads for the inset bevel in which the top
\* and left edge quads use the dark colour and the bottom and right edge
\* quads use the light colour (of the listbox palette when is_listbox, the
\* text-input palette otherwise), with inset thickness 1 when is_listbox and
\* 2 otherwise; with is_text_area it draws only the background fill and one
\* 1px stroke and no quad.
C11_TopLeftDark ==
  Painted("kTextField") =>
    /\ TextFieldShape
    /\ (~call.extra.text_field.is_text_area /\ TextQuadsApart)
         => TextEdgeColours(TextDark, TextLight, TextDark, TextLight)

\* C11 witness: a listbox on a rect of positive size was painted with a dark
\* top quad inset by one pixel.
C11_Witness ==
  /\ Painted("kTextField")
  /\ call.extra.text_field.is_listbox /\ ~call.extra.text_field.is_text_area
  /\ rect.width > 4 /\ rect.height > 4
  /\ Len(canvas) = 5
  /\ PathHas(2, rect.x, rect.y) /\ PathHas(2, rect.x + 1, rect.y + 1)
  /\ canvas[2].paint.color = RGB(44, 44, 44)

----------------------------------------------------------------------------
\* Properties of the arrow buttons (specification Spec).

\* The colour the k-th arrow-button invocation of the call filled its outline
\* with, and the one the same invocation uses in state Normal.
ArrowFill(k) == canvas[4 * (k - 1) + 2].paint.color
ArrowFillNormal(k) ==
  PaintArrowButton(trace[k].rect, trace[k].direction, "kNormal").ops[2].paint.color

\* How the fill of a state compares with the fill of Normal.
ArrowFillCompares(k, hoveredHigher) ==
  LET fill == SkColorToHSV(ArrowFill(k))
      normal == SkColorToHSV(ArrowFillNormal(k))
  IN /\ fill.h = normal.h
     /\ fill.s = normal.s
     /\ trace[k].state = "kPressed" => fill.v < normal.v
     /\ trace[k].state = "kHovered" =>
          IF hoveredHigher THEN fill.v > normal.v ELSE fill.v = normal.v
     /\ trace[k].state \in {"kDisabled", "kNormal"} => ArrowFill(k) = ArrowFillNormal(k)

\* C12: for each of the four arrow directions the fill of the outline has an
\* HSV value strictly lower in Pressed than in Normal and strictly higher in
\* Hovered than in Normal, Disabled fills as Normal does, and hue and
\* saturation of the fill are the same in all four states.
C12_FillValueByState ==
  (call.fn = "Paint" /\ call.part \in ArrowParts /\ completed) =>
    /\ Len(trace) = 1 /\ Len(canvas) = 4
    /\ canvas[2].op = "drawPath" /\ canvas[2].paint.style = "kFill_Style"
    /\ ArrowFillCompares(1, TRUE)

\* What the code does instead: the Normal fill already has the greatest
\* value a colour can have, so the Hovered fill equals it.
ArrowHoveredAsNormal ==
  (call.fn = "Paint" /\ call.part \in ArrowParts /\ completed) =>
    /\ Len(trace) = 1 /\ Len(canvas) = 4
    /\ canvas[2].op = "drawPath" /\ canvas[2].paint.style = "kFill_Style"
    /\ ArrowFillCompares(1, FALSE)
    /\ SkColorToHSV(ArrowFillNormal(1)).v = Scale

\* The stroke colour of every arrow button: OutlineColor(track, thumb).
ArrowStrokeColor ==
  OutlineColor(SkColorToHSV(kTrackColor), SkColorToHSV(kThumbInactiveColor)).ret

\* The four drawing calls of the k-th arrow-button invocation, in order.
ArrowOpsInOrder(k) ==
  LET base == 4 * (k - 1)
      st == trace[k].state
      bg == canvas[base + 1]
      fill == canvas[base + 2]
      stroke == canvas[base + 3]
      glyph == canvas[base + 4]
  IN /\ trace[k].fn = "PaintArrowButton"
     /\ bg.op = "drawIRect"
     /\ fill.op = "drawPath" /\ fill.paint.style = "kFill_Style"
     /\ fill.paint.color = ArrowButtonColor(st)
     /\ stroke.op = "drawPath" /\ stroke.paint.style = "kStroke_Style"
     /\ stroke.args = fill.args
     /\ stroke.paint.color = ArrowStrokeColor
     /\ glyph.op = "drawPath" /\ glyph.paint.style = "kFill_Style"
     /\ Len(glyph.args) = 4
     /\ glyph.args[1].verb = "moveTo" /\ glyph.args[4].verb = "close"
     /\ glyph.paint.color = IF st \in {"kNormal", "kHovered", "kPressed"}
                              THEN SK_ColorBLACK
                              ELSE stroke.paint.color

\* C13: every arrow-button paint fills the outline path with the
\* state-adjusted button colour, then strokes it with OutlineColor(track,
\* thumb), and draws the triangular glyph last; the glyph is black in Normal,
\* Hovered and Pressed and has the stroke colour in Disabled; the stroke
\* colour is the same in all four states.
C13_FillStrokeGlyph ==
  (call.fn = "Paint" /\ call.part \in ArrowParts \cup {"kInnerSpinButton"}
     /\ completed) =>
    /\ Len(trace) >= 1
    /\ Len(canvas) = 4 * Len(trace)
    /\ \A k \in 1..Len(trace) : ArrowOpsInOrder(k)

\* C13 witness: a Disabled arrow button was painted, its glyph in the stroke
\* colour, which is not black.
C13_Witness ==
  /\ call.fn = "Paint" /\ call.part = "kScrollbarLeftArrow" /\ completed
  /\ state = "kDisabled"
  /\ Len(canvas) = 4
  /\ canvas[3].paint.style = "kStroke_Style"
  /\ canvas[4].paint.color = canvas[3].paint.color
  /\ canvas[4].paint.color # SK_ColorBLACK

----------------------------------------------------------------------------
\* Properties of the slider thumb's halves (specification Spec).

ThumbHovered == state = "kHovered" \/ call.extra.slider.in_drag

\* The two half fills are the first two drawing calls; they split rect along
\* the track orientation, do not overlap and cover rect when it has positive
\* width and height.
ThumbHalvesSplit ==
  LET a == canvas[1].args
      b == canvas[2].args
      right == rect.x + rect.width
      bottom == rect.y + rect.height
  IN /\ Len(canvas) >= 2
     /\ canvas[1].op = "drawIRect" /\ canvas[2].op = "drawIRect"
     /\ (rect.width > 0 /\ rect.height > 0) =>
          IF call.extra.slider.vertical
            THEN /\ a.fLeft = rect.x /\ b.fRight = right /\ a.fRight = b.fLeft
                 /\ a.fLeft < a.fRight /\ b.fLeft <= b.fRight
                 /\ a.fTop = rect.y /\ b.fTop = rect.y
                 /\ a.fBottom = bottom /\ b.fBottom = bottom
            ELSE /\ a.fTop = rect.y /\ b.fBottom = bottom /\ a.fBottom = b.fTop
                 /\ a.fTop < a.fBottom /\ b.fTop <= b.fBottom
                 /\ a.fLeft = rect.x /\ b.fLeft = rect.x
                 /\ a.fRight = right /\ b.fRight = right

\* The halves as the thumb paints them in the other hover-or-drag case.
ThumbOtherCase ==
  PaintSliderThumb(IF ThumbHovered THEN "kNormal" ELSE "kHovered", rect,
                   [call.extra.slider EXCEPT !.in_drag = FALSE]).ops

\* C14 as stated: Paint(SliderThumb) fills the two halves with the same two
\* greys in every case, one lighter and one darker, the half that gets the
\* lighter one being swapped between the hover-or-drag case and the other
\* case; the split runs along the track orientation and the halves do not
\* overlap and cover rect when it has positive width and height.
C14_SameGreysSwapped ==
  Painted("kSliderThumb") =>
    /\ ThumbHalvesSplit
    /\ {canvas[1].paint.color, canvas[2].paint.color}
         = {kSliderThumbLightGrey, kSliderThumbDarkGrey}
    /\ canvas[1].paint.color = ThumbOtherCase[2].paint.color
    /\ canvas[2].paint.color = ThumbOtherCase[1].paint.color

\* C14 amended: Paint(SliderThumb) fills the first (left or top) half with
\* the lighter and the second half with the darker of two colours in every
\* case; the two colours are white and the light grey 0xf4f2ef in the
\* hover-or-drag case and the light grey 0xf4f2ef and the dark grey 0xeae5e0
\* otherwise, so hover or drag lightens both halves and swaps nothing; the
\* split runs along the track orientation and the halves do not overlap and
\* cover rect when it has positive width and height.
C14_FirstHalfLighter ==
  Painted("kSliderThumb") =>
    /\ ThumbHalvesSplit
    /\ canvas[1].paint.color
         = (IF ThumbHovered THEN RGB(255, 255, 255) ELSE RGB(244, 242, 239))
    /\ canvas[2].paint.color
         = (IF ThumbHovered THEN RGB(244, 242, 239) ELSE RGB(234, 229, 224))
    /\ SkColorToHSV(canvas[1].paint.color).v > SkColorToHSV(canvas[2].paint.color).v
    /\ SkColorToHSV(canvas[1].paint.color).v > SkColorToHSV(ThumbOtherCase[1].paint.color).v
         <=> ThumbHovered

\* C14 witness: a dragged vertical thumb of positive size was painted, its
\* left half white and its right half not empty.
C14_Witness ==
  /\ Painted("kSliderThumb")
  /\ state = "kNormal" /\ call.extra.slider.in_drag /\ call.extra.slider.vertical
  /\ rect.width > 1 /\ rect.height > 0
  /\ canvas[1].paint.color = SK_ColorWHITE
  /\ canvas[2].args.fLeft < canvas[2].args.fRight
  /\ canvas[2].paint.color = kSliderThumbLightGrey

----------------------------------------------------------------------------
\* Properties of the push button's gradient (specification Spec).

\* The background colour with its lightness moved by amount and clamped.
ButtonShade(amount) ==
  LET bg == call.extra.button.background_color
      hsl == SkColorToHSL(bg)
  IN HSLToSkColor([hsl EXCEPT !.l = Max(0, Min(Scale, hsl.l + amount))], bg.a)

\* The colour of the gradient stop of drawing call i that sits at height y.
StopAt(i, y) ==
  LET sh == canvas[i].paint.shader
  IN { sh.colors[k] : k \in { j \in {0, 1} : sh.pts[j] = <<rect.x, y>> } }

\* Drawing call i is the two-stop vertical gradient fill of the rectangle
\* l, t, r, b.
IsGradientFill(i, l, t, r, b) ==
  LET bg == call.extra.button.background_color
      top == IF state = "kPressed" THEN bg ELSE ButtonShade(Lit(105, 1000))
      bottom == IF state = "kPressed" THEN ButtonShade(Lit(105, 1000)) ELSE bg
  IN /\ canvas[i].op = "drawRect"
     /\ canvas[i].args = SkRect(l, t, r, b)
     /\ canvas[i].paint.style = "kFill_Style"
     /\ canvas[i].paint.shader.kind = "linear"
     /\ StopAt(i, rect.y) = {top}
     /\ StopAt(i, rect.y + rect.height - 1) = {bottom}

\* C15: for a rect at least 5x5 Paint(PushButton) fills the interior with a
\* two-stop vertical gradient, the stop lightened by 0.105 (clamped) at the
\* top and the background colour at the bottom, the two swapped when Pressed;
\* with has_border it first draws four border lines of alpha 0x80 when
\* Hovered and 0x55 otherwise, fills the rect shrunk by 1px on each side, and
\* then draws exactly four corner points in the background colour darkened
\* by 0.0588 lightness; without has_border the gradient fill over the whole
\* rect is the only operation.
C15_GradientAndBorder ==
  (Painted("kPushButton") /\ rect.width >= 5 /\ rect.height >= 5) =>
    LET l == rect.x
        t == rect.y
        r == rect.x + rect.width
        b == rect.y + rect.height
    IN IF call.extra.button.has_border
         THEN /\ Len(canvas) = 9
              /\ \A i \in 1..4 :
                   /\ canvas[i].op = "drawLine"
                   /\ canvas[i].paint.color
                        = ARGB(IF state = "kHovered" THEN 128 ELSE 85, 0, 0, 0)
              /\ IsGradientFill(5, l + 1, t + 1, r - 1, b - 1)
              /\ \A i \in 6..9 :
                   /\ canvas[i].op = "drawPoint"
                   /\ canvas[i].paint.shader.kind = "NULL"
                   /\ canvas[i].paint.color = ButtonShade(-Lit(588, 10000))
              /\ { canvas[i].args : i \in 6..9 }
                   = { <<l + 1, t + 1>>, <<r - 2, t + 1>>, <<l + 1, b - 2>>,
                       <<r - 2, b - 2>> }
         ELSE /\ Len(canvas) = 1
              /\ IsGradientFill(1, l, t, r, b)

\* C15 witness: a pressed, bordered button on a rect larger than 5x5 was
\* painted, the background colour at the top of its gradient and a lighter
\* stop at the bottom.
C15_Witness ==
  /\ Painted("kPushButton") /\ state = "kPressed"
  /\ call.extra.button.has_border
  /\ rect.width > 5 /\ rect.height > 5
  /\ Len(canvas) = 9
  /\ StopAt(5, rect.y) = {call.extra.button.background_color}
  /\ \E c \in StopAt(5, rect.y + rect.height - 1) :
       c.r > call.extra.button.background_color.r

----------------------------------------------------------------------------
\* Properties of the inner spin button's halves (specification Spec).

\* Two invocations, the up arrow first and on top, each with the x and the
\* width of rect, the second starting where the first ends.
SpinHalvesStacked ==
  /\ Len(trace) = 2
  /\ trace[1].fn = "PaintArrowButton" /\ trace[2].fn = "PaintArrowButton"
  /\ trace[1].direction = "kScrollbarUpArrow"
  /\ trace[2].direction = "kScrollbarDownArrow"
  /\ \A k \in {1, 2} : /\ trace[k].rect.x = rect.x
                       /\ trace[k].rect.width = rect.width
                       /\ trace[k].rect.height >= 0
  /\ trace[1].rect.y = rect.y
  /\ trace[2].rect.y = trace[1].rect.y + trace[1].rect.height

\* C16: Paint(InnerSpinButton) invokes the arrow-button routine exactly
\* twice, the up arrow on the top half and then the down arrow on the bottom
\* half; the halves have the x and width of rect, do not overlap and together
\* cover exactly rect: the top half starts at rect.y and the bottom half ends
\* at rect.bottom.
C16_HalvesCoverRect ==
  Painted("kInnerSpinButton") =>
    /\ SpinHalvesStacked
    /\ trace[2].rect.y + trace[2].rect.height = rect.y + rect.height

\* What the code does instead: both halves get height / 2 rounded down, so
\* for an odd height the bottom half ends one row above rect.bottom.
SpinHalvesByParity ==
  Painted("kInnerSpinButton") =>
    /\ SpinHalvesStacked
    /\ trace[2].rect.y + trace[2].rect.height
         = rect.y + rect.height - (rect.height % 2)

----------------------------------------------------------------------------
\* Properties of the slider track (specification Spec).

\* The track's band [from, to) across the axis that starts at lo and has the
\* given size: it is max(lo, mid - 2) .. min(hi, mid + 2), lies inside
\* lo .. hi and is min(4, size) thick.
TrackBandAcross(from, to, lo, size) ==
  LET hi == lo + size
      mid == lo + Div(size, 2)
  IN /\ from = (IF mid - 2 > lo THEN mid - 2 ELSE lo)
     /\ to = (IF mid + 2 < hi THEN mid + 2 ELSE hi)
     /\ lo <= from /\ from <= to /\ to <= hi
     /\ to - from = (IF size < 4 THEN size ELSE 4)

\* C17: for every rect and both values of vertical, Paint(SliderTrack) emits
\* exactly one fill, in the constant track background colour whatever the
\* state, that spans the full rect along the track's long axis and covers
\* [max(lo, mid - 2), min(hi, mid + 2)) across it; the band lies inside rect
\* and is min(4, the rect's size on that axis) thick.
C17_TrackBand ==
  Painted("kSliderTrack") =>
    /\ Len(canvas) = 1
    /\ canvas[1].op = "drawRect"
    /\ canvas[1].paint.style = "kFill_Style"
    /\ canvas[1].paint.shader.kind = "NULL"
    /\ canvas[1].paint.color = RGB(227, 221, 216)
    /\ LET a == canvas[1].args
       IN IF call.extra.slider.vertical
            THEN /\ a.fTop = rect.y /\ a.fBottom = rect.y + rect.height
                 /\ TrackBandAcross(a.fLeft, a.fRight, rect.x, rect.width)
            ELSE /\ a.fLeft = rect.x /\ a.fRight = rect.x + rect.width
                 /\ TrackBandAcross(a.fTop, a.fBottom, rect.y, rect.height)

\* C17 witness: a vertical track was painted on a rect 3 wide, the band
\* clamped to the rect's 3 columns.
C17_Witness ==
  /\ Painted("kSliderTrack") /\ call.extra.slider.vertical
  /\ rect.width = 3
  /\ canvas[1].args.fLeft = rect.x /\ canvas[1].args.fRight = rect.x + 3

----------------------------------------------------------------------------
\* Properties of the slider thumb's pixels (specification Spec).

\* A drawIRect fills the pixels l <= x < r, t <= y < b, none when the
\* rectangle is empty; they lie inside rect when the rectangle does.
FillsInsideRect(op) ==
  LET a == op.args
  IN /\ op.op = "drawIRect"
     /\ \/ a.fLeft >= a.fRight
        \/ a.fTop >= a.fBottom
        \/ /\ rect.x <= a.fLeft /\ a.fRight <= rect.x + rect.width
           /\ rect.y <= a.fTop /\ a.fBottom <= rect.y + rect.height

\* C18: for every rect, state and SliderExtraParams each pixel filled by
\* Paint(SliderThumb), by the two half fills, the four lines of the box
\* outline and the ticks, lies inside rect; a rect with zero width or zero
\* height results in no pixel being filled.
C18_PixelsInsideRect ==
  Painted("kSliderThumb") =>
    /\ Len(canvas) >= 6
    /\ \A i \in 1..Len(canvas) : FillsInsideRect(canvas[i])

\* What the code does instead: the pixels stay inside rect when it has
\* positive width and height, and none is filled when both are zero.
ThumbPixelsInsideUnlessThin ==
  (Painted("kSliderThumb") /\ (rect.width = 0 <=> rect.height = 0)) =>
    /\ Len(canvas) >= 6
    /\ \A i \in 1..Len(canvas) : FillsInsideRect(canvas[i])

====
